---- MODULE Spec2Model ----
(***************************************************************************)
(* Model of pretty_testing's debug preparation (debug_prep.py) and         *)
(* traceback triage (output_parser.py).                                    *)
(*                                                                         *)
(* A source file is a sequence of lines.  A line is a record               *)
(*   [ws   : the leading whitespace, one element per character,            *)
(*    toks : the rest of the line cut into tokens (terminator dropped),    *)
(*    bps  : the breakpoints a debugger-entry statement sets, in order]    *)
(* List indices of the Python code are 0-based, sequence positions and     *)
(* parser line numbers are 1-based: index i0 is position i0 + 1.           *)
(***************************************************************************)
EXTENDS Integers, Sequences, FiniteSets, TLC

VARIABLES
    original_lines,  \* full_debug_prep: the lines read from file_path
    method,          \* the target method name
    fail_line,       \* the failure line (0: unknown), against the original
    debugger,        \* "pudb" or "pdbpp"
    user_error,      \* [file, line]: the user_error_file / user_error_line
    store,           \* the manual breakpoint store: its lines, or "missing"
    disk,            \* the physical lines of file_path on disk
    pc,              \* position of full_debug_prep
    preflight,       \* what run_preflight did: [ran, raised, ok, msg]
    log,             \* the rewrites of file_path and the preflight runs
                     \* so far, oldest first
    call,            \* direct call of one function: its name and arguments
    result           \* the value that call returned

vars == <<original_lines, method, fail_line, debugger, user_error, store,
          disk, pc, preflight, log, call, result>>

----------------------------------------------------------------------------
(* Bounds of the model *)

MaxMembers == 2      \* declarations in the body of the test class
MaxFrames == 4       \* frame records of a traceback

----------------------------------------------------------------------------
(* Lines *)

NoBps == SubSeq(<<[file |-> <<"x">>, line |-> 0]>>, 1, 0)

L(ws, toks) == [ws |-> ws, toks |-> toks, bps |-> NoBps]

Spaces(n) == [i \in 1..n |-> " "]

\* leading whitespace of k levels of the unit u (" " or "\t")
Ind(u, k) == [i \in 1..k |-> u]

IsBlank(l) == l.toks = <<>>

IsPrefix(s, t) == Len(s) <= Len(t) /\ SubSeq(t, 1, Len(s)) = s

\* mutant: the element at index i0 is overwritten
ListInsert_Overwrite(s, i0, x) ==
    IF i0 >= Len(s) THEN Append(s, x)
    ELSE SubSeq(s, 1, i0) \o <<x>> \o SubSeq(s, i0 + 2, Len(s))

\* list.insert(i0, x): x is put before 0-based index i0 (appended when i0
\* is beyond the end)
ListInsert(s, i0, x) ==
    IF i0 >= Len(s) THEN Append(s, x)
    ELSE SubSeq(s, 1, i0) \o <<x>> \o SubSeq(s, i0 + 1, Len(s))

----------------------------------------------------------------------------
(* Environment Neutralizer *)

\* mutant: every decorator line is taken for a @timeout line
IsTimeoutLine_AnyDecorator(l) ==
    l.toks # <<>> /\ l.toks[1] \in {"@timeout", "@mock.patch", "@classmethod"}

\* re.match(r'\s*@timeout\b', l)
IsTimeoutLine(l) == l.toks # <<>> /\ l.toks[1] = "@timeout"

\* [l for l in lines if not re.match(...)]
RECURSIVE remove_timeouts(_)
remove_timeouts(lines) ==
    IF lines = <<>> THEN <<>>
    ELSE IF IsTimeoutLine(Head(lines)) THEN remove_timeouts(Tail(lines))
    ELSE <<Head(lines)>> \o remove_timeouts(Tail(lines))

\* position of the first ")" token at or after position i, 0 if none
RECURSIVE FirstClose(_, _)
FirstClose(toks, i) ==
    IF i > Len(toks) THEN 0
    ELSE IF toks[i] = ")" THEN i
    ELSE FirstClose(toks, i + 1)

\* re.sub(r'signal\.alarm\([^)]*\)', 'signal.alarm(0)', l) on the tokens
\* from position i on: every non-overlapping match, left to right
RECURSIVE SubAlarm(_, _)
SubAlarm(toks, i) ==
    IF i > Len(toks) THEN <<>>
    ELSE IF toks[i] = "signal.alarm(" /\ FirstClose(toks, i + 1) # 0
         THEN <<"signal.alarm(", "0", ")">>
              \o SubAlarm(toks, FirstClose(toks, i + 1) + 1)
    ELSE <<toks[i]>> \o SubAlarm(toks, i + 1)

neutralize_alarms(lines) ==
    [i \in 1..Len(lines) |-> [lines[i] EXCEPT !.toks = SubAlarm(@, 1)]]

----------------------------------------------------------------------------
(* ast.parse and ast.walk, for the statements the files are made of:       *)
(* class / def / if / while / try / except headers, decorators, simple     *)
(* statements.  A header whose last token is not ":" carries its body on   *)
(* the same line.                                                          *)

CompoundKw == {"class", "def", "if", "for", "while", "try", "except"}

IsDecorator(l) ==
    l.toks # <<>> /\ l.toks[1] \in {"@timeout", "@mock.patch", "@classmethod"}

IsHeader(l) == l.toks # <<>> /\ l.toks[1] \in CompoundKw

HasInlineBody(l) == IsHeader(l) /\ l.toks[Len(l.toks)] # ":"

OpensBlock(l) == IsHeader(l) /\ ~HasInlineBody(l)

\* parentheses of one line: the nesting after the tokens, -1 once it
\* has gone negative
RECURSIVE ParenDepth(_, _, _)
ParenDepth(toks, i, d) ==
    IF d < 0 THEN -1
    ELSE IF i > Len(toks) THEN d
    ELSE IF toks[i] \in {"(", "signal.alarm("} THEN ParenDepth(toks, i + 1, d + 1)
    ELSE IF toks[i] = ")" THEN ParenDepth(toks, i + 1, d - 1)
    ELSE ParenDepth(toks, i + 1, d)

Balanced(l) == ParenDepth(l.toks, 1, 0) = 0

\* the open blocks up to and including the one indented by ws;
\* <<>> when no open block has that indentation (IndentationError)
RECURSIVE PopTo(_, _)
PopTo(stack, ws) ==
    IF stack = <<>> THEN <<>>
    ELSE IF stack[Len(stack)] = ws THEN stack
    ELSE PopTo(SubSeq(stack, 1, Len(stack) - 1), ws)

ParseStart ==
    [ok |-> TRUE, stack |-> <<Spaces(0)>>, expect |-> FALSE, deco |-> FALSE,
     depths |-> SubSeq(<<0>>, 1, 0)]

\* one pass over the lines: ok is FALSE when the source does not parse;
\* depths[i] is the depth in the syntax tree of the statement on line i
\* (1: a statement of the module body), 0 for a blank line
RECURSIVE ParseFrom(_, _, _)
ParseFrom(lines, i, st) ==
    IF ~st.ok THEN st
    ELSE IF i > Len(lines) THEN [st EXCEPT !.ok = ~st.expect /\ ~st.deco]
    ELSE IF IsBlank(lines[i])
         THEN ParseFrom(lines, i + 1, [st EXCEPT !.depths = Append(@, 0)])
    ELSE LET l == lines[i]
             top == st.stack[Len(st.stack)]
             stack2 == IF st.expect
                       THEN IF IsPrefix(top, l.ws) /\ top # l.ws
                            THEN Append(st.stack, l.ws) ELSE <<>>
                       ELSE PopTo(st.stack, l.ws)
             good == /\ stack2 # <<>>
                     /\ Balanced(l)
                     /\ st.deco => /\ Len(stack2) = Len(st.stack)
                                   /\ \/ IsDecorator(l)
                                      \/ l.toks[1] \in {"def", "class"}
         IN  IF ~good THEN [st EXCEPT !.ok = FALSE]
             ELSE ParseFrom(lines, i + 1,
                            [ok |-> TRUE, stack |-> stack2,
                             expect |-> OpensBlock(l),
                             deco |-> IsDecorator(l),
                             depths |-> Append(st.depths, Len(stack2))])

Parse(lines) == ParseFrom(lines, 1, ParseStart)

Parses(lines) == Parse(lines).ok

\* the lines holding an ast.FunctionDef named name
DefsNamed(lines, name) ==
    {i \in 1..Len(lines) :
        /\ Len(lines[i].toks) >= 2
        /\ lines[i].toks[1] = "def"
        /\ lines[i].toks[2] = name}

\* mutant: the first match in source order, whatever its depth
WalkFindDef_SourceOrder(lines, name) ==
    LET defs == DefsNamed(lines, name)
    IN  IF defs = {} THEN 0
        ELSE CHOOSE i \in defs : \A j \in defs : i <= j

\* "for node in ast.walk(tree): if FunctionDef and node.name == name":
\* ast.walk is breadth first, so the first match is the match of least
\* depth, and among those the first in the source; 0 when there is none
WalkFindDef(lines, name) ==
    LET defs == DefsNamed(lines, name)
        dep == Parse(lines).depths
    IN  IF defs = {} THEN 0
        ELSE CHOOSE i \in defs :
                \A j \in defs : dep[i] < dep[j] \/ (dep[i] = dep[j] /\ i <= j)

\* node.body[0].lineno of the def on line i: the def line itself when the
\* body is on the header line, else the first statement line below it (a
\* decorated statement is located at its def / class line)
RECURSIVE FirstStmtFrom(_, _)
FirstStmtFrom(lines, j) ==
    IF j > Len(lines) THEN j
    ELSE IF IsBlank(lines[j]) \/ IsDecorator(lines[j])
         THEN FirstStmtFrom(lines, j + 1)
    ELSE j

BodyLineno(lines, i) ==
    IF HasInlineBody(lines[i]) THEN i ELSE FirstStmtFrom(lines, i + 1)

----------------------------------------------------------------------------
(* The manual breakpoint store.  A store line, stripped, is the sequence   *)
(* of its fields between ':' separators: "/a/b.py:25" is <<"/a/b.py",      *)
(* "25">>, a line without separator has one field, a blank line is <<"">>. *)

Bp(file, line) == [file |-> file, line |-> line]

\* int(s): the strings that int() accepts, with their values
IntTable == [t \in {"25", "7"} |-> IF t = "25" THEN 25 ELSE 7]

IsIntText(t) == t \in DOMAIN IntTable

\* line.strip(): a line of white space only becomes the empty line
StripLine(fields) == IF fields = <<"   ">> THEN <<"">> ELSE fields

\* mutant: the line is split at its first ':'; the rest is a number only
\* when it is a single field
StoreEntry_FirstColon(fields) ==
    LET line == StripLine(fields)
    IN  IF line = <<"">> THEN NoBps
        ELSE IF Len(line) = 2 /\ IsIntText(line[2])
             THEN <<Bp(<<line[1]>>, IntTable[line[2]])>>
        ELSE NoBps

\* the loop body of read_manual_breakpoints for one line
StoreEntry(fields) ==
    LET line == StripLine(fields)
    IN  IF line = <<"">> THEN NoBps
        ELSE IF Len(line) >= 2 /\ IsIntText(line[Len(line)])
             THEN <<Bp(SubSeq(line, 1, Len(line) - 1),
                       IntTable[line[Len(line)]])>>
        ELSE NoBps

RECURSIVE StoreEntries(_)
StoreEntries(ls) ==
    IF ls = <<>> THEN NoBps
    ELSE StoreEntry(Head(ls)) \o StoreEntries(Tail(ls))

read_manual_breakpoints(st) ==
    IF ~st.exists THEN NoBps ELSE StoreEntries(st.lines)

----------------------------------------------------------------------------
(* The debugger-entry statement *)

NoPath == SubSeq(<<"x">>, 1, 0)

\* the parts of the statement, in the order they are appended: the import
\* and the debugger object, one set_break call per breakpoint (the k-th
\* call sets the k-th breakpoint of the line's bps), the error-summary
\* print, set_trace
TraceToks(dbg, n) ==
    (IF dbg = "pdbpp"
     THEN <<"import pdb", "sticky_by_default", "_dbg = pdb.Pdb()">>
     ELSE <<"import pudb", "_dbg = pudb._get_debugger()">>)
    \o [k \in 1..n |-> "_dbg.set_break"]
    \o <<"error_summary",
         IF dbg = "pdbpp" THEN "pdb.set_trace()" ELSE "pudb.set_trace()">>

IsTraceLine(l) == l.toks # <<>> /\ l.toks[1] \in {"import pdb", "import pudb"}

UserErrorBps(uef, uel) ==
    IF uef # NoPath /\ uel # 0 THEN <<Bp(uef, uel)>> ELSE NoBps

\* bp_target = 0 stands for None, abs_path = NoPath for None
_trace_line(dbg, abs_path, bp_target, uef, uel, manual_breakpoints) ==
    LET bps == (IF bp_target # 0 /\ abs_path # NoPath
                THEN <<Bp(abs_path, bp_target)>> ELSE NoBps)
               \o UserErrorBps(uef, uel)
               \o manual_breakpoints
    IN  [ws |-> Spaces(0), toks |-> TraceToks(dbg, Len(bps)), bps |-> bps]

\* mutant: the manual breakpoints are set first
_trace_line_multi_ManualFirst(dbg, abs_path, bp_targets, uef, uel, manual_breakpoints) ==
    LET bps == manual_breakpoints
               \o (IF abs_path # NoPath
                   THEN [k \in 1..Len(bp_targets) |->
                            Bp(abs_path, bp_targets[k])]
                   ELSE NoBps)
               \o UserErrorBps(uef, uel)
    IN  [ws |-> Spaces(0), toks |-> TraceToks(dbg, Len(bps)), bps |-> bps]

_trace_line_multi(dbg, abs_path, bp_targets, uef, uel, manual_breakpoints) ==
    LET bps == (IF abs_path # NoPath
                THEN [k \in 1..Len(bp_targets) |->
                         Bp(abs_path, bp_targets[k])]
                ELSE NoBps)
               \o UserErrorBps(uef, uel)
               \o manual_breakpoints
    IN  [ws |-> Spaces(0), toks |-> TraceToks(dbg, Len(bps)), bps |-> bps]

\* pad + trace: pad = ' ' * (number of leading whitespace characters)
Padded(trace, indent) == [trace EXCEPT !.ws = Spaces(indent)]

----------------------------------------------------------------------------
(* Source Transformer *)

\* mutant: the failure line is not adjusted for the removed lines
AdjFail_NoTimeouts(lines, fl) == IF fl > 0 THEN fl ELSE 0

\* sum(1 for l in lines[:max(0, fail_line - 1)] if re.match(...))
RECURSIVE TimeoutsAbove(_, _)
TimeoutsAbove(lines, n) ==
    IF n <= 0 THEN 0
    ELSE (IF n <= Len(lines) /\ IsTimeoutLine(lines[n]) THEN 1 ELSE 0)
         + TimeoutsAbove(lines, n - 1)

AdjFail(lines, fl) ==
    IF fl > 0 THEN fl - TimeoutsAbove(lines, fl - 1) ELSE 0

\* a call that may raise: [raised, lines]
Raised == [raised |-> TRUE, lines |-> <<>>]
Returned(ls) == [raised |-> FALSE, lines |-> ls]

inject_set_trace(lines, meth, fl, abs_path, dbg, uef, uel, st) ==
    LET adj_fail == AdjFail(lines, fl)
        cleaned == neutralize_alarms(remove_timeouts(lines))
        manual_bps == read_manual_breakpoints(st)
        node == WalkFindDef(cleaned, meth)
        body_line == BodyLineno(cleaned, node) - 1
        indent == Len(cleaned[body_line + 1].ws)
        bp_target == IF adj_fail > 0 THEN adj_fail + 1 ELSE 0
    IN  IF ~Parses(cleaned) THEN Raised
        ELSE IF node # 0
        THEN Returned(ListInsert(cleaned, body_line,
                 Padded(_trace_line(dbg, abs_path, bp_target, uef, uel,
                                    manual_bps), indent)))
        ELSE Returned(ListInsert(cleaned, 0,
                 _trace_line(dbg, NoPath, 0, uef, uel, manual_bps)))

\* mutant: the failure line is not offset by the inserted line
SetupBpTargets_NoOffset(method_body_line, fl, abs_path) ==
    (IF method_body_line # 0 /\ abs_path # NoPath
     THEN <<method_body_line + 1>> ELSE <<>>)
    \o (IF fl # 0 /\ abs_path # NoPath /\ fl # method_body_line
        THEN <<fl>> ELSE <<>>)

\* the breakpoint targets of inject_setup_trace (both branches compute the
\* same list)
SetupBpTargets(method_body_line, fl, abs_path) ==
    (IF method_body_line # 0 /\ abs_path # NoPath
     THEN <<method_body_line + 1>> ELSE <<>>)
    \o (IF fl # 0 /\ abs_path # NoPath /\ fl # method_body_line
        THEN <<fl + 1>> ELSE <<>>)

\* meth = "" stands for method=None
inject_setup_trace(lines, dbg, meth, fl, abs_path, uef, uel, st) ==
    LET manual_bps == read_manual_breakpoints(st)
        mnode == IF meth # "" THEN WalkFindDef(lines, meth) ELSE 0
        method_body_line == IF mnode # 0 THEN BodyLineno(lines, mnode) ELSE 0
        node == WalkFindDef(lines, "setUp")
        body_line == BodyLineno(lines, node) - 1
        indent == Len(lines[body_line + 1].ws)
        trace == _trace_line_multi(dbg, abs_path,
                     SetupBpTargets(method_body_line, fl, abs_path),
                     uef, uel, manual_bps)
    IN  IF ~Parses(lines) THEN Raised
        ELSE IF node # 0
        THEN Returned(ListInsert(lines, body_line, Padded(trace, indent)))
        ELSE Returned(ListInsert(lines, 0, trace))

\* the list element that replaces 'raise e': one string of seven lines
PostMortem(dbg) ==
    L(Spaces(16), <<"post_mortem", IF dbg = "pudb" THEN "pudb" ELSE "pdb">>)

IsPostMortem(l) == l.toks # <<>> /\ l.toks[1] = "post_mortem"

\* mutant: every 'raise e' line is replaced
RECURSIVE PatchFrom_All(_, _, _)
PatchFrom_All(lines, dbg, patched) ==
    IF lines = <<>> THEN <<>>
    ELSE IF Head(lines).toks = <<"raise e">>
         THEN <<PostMortem(dbg)>> \o PatchFrom_All(Tail(lines), dbg, TRUE)
    ELSE <<Head(lines)>> \o PatchFrom_All(Tail(lines), dbg, patched)

RECURSIVE PatchFrom(_, _, _)
PatchFrom(lines, dbg, patched) ==
    IF lines = <<>> THEN <<>>
    ELSE IF ~patched /\ Head(lines).toks = <<"raise e">>
         THEN <<PostMortem(dbg)>> \o PatchFrom(Tail(lines), dbg, TRUE)
    ELSE <<Head(lines)>> \o PatchFrom(Tail(lines), dbg, patched)

patch_postmortem(lines, dbg) == PatchFrom(lines, dbg, FALSE)

\* the physical lines of one list element
PhysicalLines(e) ==
    IF IsPostMortem(e)
    THEN << L(e.ws, <<"import sys as _s; _tb = _s.exc_info()[2]; _ut = _tb">>),
            L(e.ws, <<"while", "_tb", ":">>),
            L(e.ws \o Spaces(4),
              <<"if", "_tb.tb_frame.f_code.co_filename == __file__", ":",
                "_ut = _tb">>),
            L(e.ws \o Spaces(4), <<"_tb = _tb.tb_next">>),
            L(e.ws, <<"try", ":", "_ut.tb_next = None">>),
            L(e.ws, <<"except", ":", "pass">>),
            L(e.ws, <<"import", e.toks[2], "post_mortem()">>) >>
    ELSE <<e>>

\* f.writelines(result), read back as lines
RECURSIVE WriteLines(_)
WriteLines(elems) ==
    IF elems = <<>> THEN <<>>
    ELSE PhysicalLines(Head(elems)) \o WriteLines(Tail(elems))

----------------------------------------------------------------------------
(* Preflight Validator.  What importing the rewritten file does is the     *)
(* environment's: env.import is the outcome of exec_module, env.ns the     *)
(* objects of the module in dir() order.  An outcome is "ok", "exc" (an    *)
(* exception derived from Exception) or "base" (derived from BaseException *)
(* only: SystemExit, KeyboardInterrupt).                                   *)

Outcomes == {"ok", "exc", "base"}

\* isinstance(obj, type) and issubclass(obj, unittest.TestCase)
\* and obj is not unittest.TestCase, and hasattr(obj, method)
Qualifies(obj, meth) ==
    obj.isType /\ obj.isTestCase /\ ~obj.isBase /\ meth \in obj.attrs

\* the class the loop over dir(mod) breaks at: its position, 0 if none
RECURSIVE TargetClass(_, _, _)
TargetClass(ns, meth, k) ==
    IF k > Len(ns) THEN 0
    ELSE IF Qualifies(ns[k], meth) THEN k
    ELSE TargetClass(ns, meth, k + 1)

PfRaised == [ran |-> TRUE, raised |-> TRUE, ok |-> FALSE, msg |-> <<>>]
PfReturn(ok, msg) == [ran |-> TRUE, raised |-> FALSE, ok |-> ok, msg |-> msg]
PfNotRun == [ran |-> FALSE, raised |-> FALSE, ok |-> FALSE, msg |-> <<>>]

\* target_class(method), then instance.setUp() when it is callable
SetUpOutcome(c) ==
    IF c.init # "ok" THEN c.init
    ELSE IF c.setUpCallable THEN c.setUp
    ELSE "ok"

\* a piece of the target's code that run_preflight executes: what it is and
\* the position in dir(mod) of the class it belongs to (0: the module)
Step(what, k) == [what |-> what, class |-> k]

\* mutant: the target method is run after setUp
PfSteps_RunsTest(env, meth) ==
    LET k == TargetClass(env.ns, meth, 1)
    IN  <<Step("exec_module", 0)>>
        \o (IF env.import = "ok" /\ k # 0
            THEN <<Step("construct", k)>>
                 \o (IF env.ns[k].init = "ok" /\ env.ns[k].setUpCallable
                     THEN <<Step("setUp", k), Step(meth, k)>> ELSE <<>>)
            ELSE <<>>)

\* the pieces of the target's code executed by a call, in order
\* (lines 265, 281, 284)
PfSteps(env, meth) ==
    LET k == TargetClass(env.ns, meth, 1)
    IN  <<Step("exec_module", 0)>>
        \o (IF env.import = "ok" /\ k # 0
            THEN <<Step("construct", k)>>
                 \o (IF env.ns[k].init = "ok" /\ env.ns[k].setUpCallable
                     THEN <<Step("setUp", k)>> ELSE <<>>)
            ELSE <<>>)

\* spec.loader.exec_module(mod) on the file: the lines it executes whatever
\* the outcome of the import, which are the first statement of a module
\* that compiles (nothing before it can raise)
ExecModuleStarts(lines) ==
    IF Parses(lines) /\ FirstStmtFrom(lines, 1) <= Len(lines)
    THEN {FirstStmtFrom(lines, 1)} ELSE {}

run_preflight(env, meth) ==
    LET k == TargetClass(env.ns, meth, 1)
    IN  IF env.import = "base" THEN PfRaised
        ELSE IF env.import = "exc" THEN PfReturn(FALSE, <<"Import error: ", "e">>)
        ELSE IF k = 0
             THEN PfReturn(FALSE, <<"No TestCase class contains method ", meth>>)
        ELSE IF SetUpOutcome(env.ns[k]) = "base" THEN PfRaised
        ELSE IF SetUpOutcome(env.ns[k]) = "exc"
             THEN PfReturn(FALSE, <<"setUp failed: ", "e">>)
        ELSE PfReturn(TRUE, <<>>)

----------------------------------------------------------------------------
(* The inputs: test files, stores, module environments *)

Units == {" ", "\t"}

FileHead == <<L(Spaces(0), <<"import unittest">>),
              L(Spaces(0), <<"class", "TestFoo", ":">>)>>

SetUpMember(u, body) ==
    <<L(Ind(u, 1), <<"def", "setUp", ":">>), L(Ind(u, 2), body)>>

\* decos: the decorator lines above the def, as token sequences
TestMember(u, decos, name) ==
    [k \in 1..Len(decos) |-> L(Ind(u, 1), decos[k])]
    \o <<L(Ind(u, 1), <<"def", name, ":">>),
         L(Ind(u, 2), <<"y = 2">>),
         L(Ind(u, 2), <<"assert y == 1">>)>>

MemberTemplates(u) ==
    {SetUpMember(u, b) :
        b \in {<<"self.x = 1">>, <<"signal.alarm(", "30", ")">>,
               <<"signal.alarm(", "int", "(", "T", ")", ")">>}}
    \cup {TestMember(u, d, "test_x") :
            d \in {<<>>, << <<"@timeout", "(", "5", ")">> >>,
                   << <<"@mock.patch">>, <<"@timeout", "(", "5", ")">> >>}}
    \cup {TestMember(u, d, "test_y") : d \in {<<>>, << <<"@timeout">> >>}}

\* the runner block of test_generator.py, cut down to the blocks around
\* its 'raise e' line
GeneratedRunner ==
    <<L(Spaces(0), <<"if", "__name__ == '__main__'", ":">>),
      L(Spaces(4), <<"for", "target_class, method_name in pairs", ":">>),
      L(Spaces(8), <<"if", "True", ":">>),
      L(Spaces(12), <<"try", ":">>),
      L(Spaces(16), <<"_method_func()">>),
      L(Spaces(12), <<"except", "Exception as e", ":">>),
      L(Spaces(16), <<"if", "not isinstance(e, RecursionError)", ":">>),
      L(Spaces(20), <<"raise e">>)>>

Runners == {<<>>, GeneratedRunner}

\* a test method of the user's that re-raises what it catches
ReraisingMember(u) ==
    <<L(Ind(u, 1), <<"def", "test_z", ":">>),
      L(Ind(u, 2), <<"try", ":">>),
      L(Ind(u, 3), <<"work()">>),
      L(Ind(u, 2), <<"except", "Exception as e", ":">>),
      L(Ind(u, 3), <<"raise e">>),
      L(Ind(u, 2), <<"raise err">>)>>

RECURSIVE Flatten(_)
Flatten(ss) == IF ss = <<>> THEN <<>> ELSE Head(ss) \o Flatten(Tail(ss))

\* the lines of a test file without its runner block, from the members of
\* its class
ClassFile(ms) == FileHead \o Flatten(ms)

\* a class with setUp and test_x, and below it top-level functions of the
\* same names
ShadowedFile(u) ==
    ClassFile(<<TestMember(u, <<>>, "test_x"),
                SetUpMember(u, <<"self.x = 1">>)>>)
    \o <<L(Spaces(0), <<"def", "test_x", ":">>),
          L(Ind(u, 1), <<"helper()">>),
          L(Spaces(0), <<"def", "setUp", ":">>),
          L(Ind(u, 1), <<"prepare()">>)>>

\* a class whose setUp and test_x carry their body on the header line
InlineFile(u) ==
    FileHead \o <<L(Ind(u, 1), <<"def", "setUp", ":", "self.x = 1">>),
                   L(Ind(u, 1), <<"def", "test_x", ":", "pass">>)>>

SpecialFiles(u) == {ShadowedFile(u), InlineFile(u)}

AbsPath == <<"/tmp/test.py">>

Methods == {"test_x", "test_y"}

Debuggers == {"pudb", "pdbpp"}

NoUserError == [file |-> NoPath, line |-> 0]

UserErrors == {NoUserError,
               [file |-> <<"/home/user/my_module.py">>, line |-> 42]}

NoStore == [exists |-> FALSE, lines |-> <<>>]

Stores == {NoStore,
           [exists |-> TRUE,
            lines |-> << <<"/a/b.py", "25">>, <<"">>, <<"no separator">>,
                         <<"/a/b.py", "abc">>, <<"/c/d.py", "7">> >>]}

\* the lines of the body of the def on line i
BodyOf(lines, i) ==
    {j \in (i + 1)..Len(lines) :
        /\ ~IsBlank(lines[j]) /\ ~IsDecorator(lines[j])
        /\ \A k \in (i + 1)..j : Len(lines[k].ws) > Len(lines[i].ws)}

\* the lines a traceback can report for a frame of a function named name
FrameLines(lines, name) ==
    UNION {BodyOf(lines, i) : i \in DefsNamed(lines, name)}

TestClass(attrs, init, callable, setUp) ==
    [isType |-> TRUE, isTestCase |-> TRUE, isBase |-> FALSE, attrs |-> attrs,
     init |-> init, setUpCallable |-> callable, setUp |-> setUp]

ModuleObjects ==
    {TestClass({m}, "ok", TRUE, o) : m \in Methods, o \in Outcomes}
    \cup {TestClass({m}, "exc", TRUE, "ok") : m \in Methods}
    \cup {[TestClass(Methods, "ok", TRUE, "exc") EXCEPT !.isBase = TRUE],
          [TestClass(Methods, "ok", TRUE, "exc") EXCEPT !.isTestCase = FALSE],
          [TestClass(Methods, "ok", TRUE, "exc") EXCEPT !.isType = FALSE]}

MaxNames == 2        \* names in the namespace of the imported module

Namespaces == UNION {[1..n -> ModuleObjects] : n \in 0..MaxNames}

SyntaxErrorEnv == [import |-> "exc", ns |-> <<>>]

Envs == {[import |-> o, ns |-> <<>>] : o \in {"exc", "base"}}
        \cup {[import |-> "ok", ns |-> ns] : ns \in Namespaces}

----------------------------------------------------------------------------
(* Injection Orchestrator: full_debug_prep *)

NoCall == [fn |-> "none"]

Init ==
    /\ \E n \in 1..MaxMembers :
          \E ms \in [1..n -> MemberTemplates(" ")], r \in Runners :
             original_lines = ClassFile(ms) \o r
    /\ method \in Methods
    /\ fail_line \in {0} \cup FrameLines(original_lines, method)
    /\ debugger \in Debuggers
    /\ \/ user_error = NoUserError /\ store = NoStore
       \/ user_error \in UserErrors \ {NoUserError} /\ store \in Stores \ {NoStore}
    /\ disk = original_lines
    /\ pc = "start"
    /\ preflight = PfNotRun
    /\ log = <<>>
    /\ call = NoCall
    /\ result = NoCall

DirectRewrite(lines, meth, fl, dbg, ue, st) ==
    LET r == inject_set_trace(lines, meth, fl, AbsPath, dbg, ue.file, ue.line, st)
    IN  IF r.raised THEN r ELSE Returned(patch_postmortem(r.lines, dbg))

FallbackRewrite(lines, meth, fl, dbg, ue, st) ==
    LET r == inject_setup_trace(neutralize_alarms(remove_timeouts(lines)),
                                dbg, meth, fl, AbsPath, ue.file, ue.line, st)
    IN  IF r.raised THEN r ELSE Returned(patch_postmortem(r.lines, dbg))

\* mutant: the neutralized lines are written before they are parsed
Direct_WriteBeforeParse ==
    /\ pc = "start"
    /\ LET r == DirectRewrite(original_lines, method, fail_line, debugger,
                              user_error, store)
       IN  IF r.raised
           THEN /\ pc' = "raised"
                /\ disk' = neutralize_alarms(remove_timeouts(original_lines))
                /\ log' = Append(log, "write direct")
           ELSE /\ pc' = "preflight"
                /\ disk' = WriteLines(r.lines)
                /\ log' = Append(log, "write direct")
    /\ UNCHANGED <<original_lines, method, fail_line, debugger, user_error,
                   store, preflight, call, result>>

\* lines 298-305: read, inject_set_trace, patch_postmortem, write
Direct ==
    /\ pc = "start"
    /\ LET r == DirectRewrite(original_lines, method, fail_line, debugger,
                              user_error, store)
       IN  IF r.raised
           THEN /\ pc' = "raised"
                /\ UNCHANGED <<disk, log>>
           ELSE /\ pc' = "preflight"
                /\ disk' = WriteLines(r.lines)
                /\ log' = Append(log, "write direct")
    /\ UNCHANGED <<original_lines, method, fail_line, debugger, user_error,
                   store, preflight, call, result>>

\* line 307: ok, err = run_preflight(file_path, method); a file that does
\* not parse cannot be imported (SyntaxError is derived from Exception)
Preflight ==
    /\ pc = "preflight"
    /\ \E env \in IF Parses(disk) THEN Envs ELSE {SyntaxErrorEnv} :
          preflight' = run_preflight(env, method)
    /\ pc' = IF preflight'.raised THEN "raised"
             ELSE IF preflight'.ok THEN "done" ELSE "fallback"
    /\ log' = Append(log, "preflight")
    /\ UNCHANGED <<original_lines, method, fail_line, debugger, user_error,
                   store, disk, call, result>>

\* mutant: the fallback patches the Direct rewrite left on disk
Fallback_FromDirectRewrite ==
    /\ pc = "fallback"
    /\ LET r == FallbackRewrite(disk, method, fail_line, debugger,
                                user_error, store)
       IN  IF r.raised
           THEN /\ pc' = "raised"
                /\ UNCHANGED <<disk, log>>
           ELSE /\ pc' = "done"
                /\ disk' = WriteLines(r.lines)
                /\ log' = Append(log, "write fallback")
    /\ UNCHANGED <<original_lines, method, fail_line, debugger, user_error,
                   store, preflight, call, result>>

\* mutant: the fallback rewrite is validated by a second preflight
Fallback_ThenPreflight ==
    /\ pc = "fallback"
    /\ LET r == FallbackRewrite(original_lines, method, fail_line, debugger,
                                user_error, store)
       IN  IF r.raised
           THEN /\ pc' = "raised"
                /\ UNCHANGED <<disk, log>>
           ELSE /\ pc' = "preflight"
                /\ disk' = WriteLines(r.lines)
                /\ log' = Append(log, "write fallback")
    /\ UNCHANGED <<original_lines, method, fail_line, debugger, user_error,
                   store, preflight, call, result>>

\* lines 308-319: the rewrite through setUp, from the original lines
Fallback ==
    /\ pc = "fallback"
    /\ LET r == FallbackRewrite(original_lines, method, fail_line, debugger,
                                user_error, store)
       IN  IF r.raised
           THEN /\ pc' = "raised"
                /\ UNCHANGED <<disk, log>>
           ELSE /\ pc' = "done"
                /\ disk' = WriteLines(r.lines)
                /\ log' = Append(log, "write fallback")
    /\ UNCHANGED <<original_lines, method, fail_line, debugger, user_error,
                   store, preflight, call, result>>

Next == Direct \/ Preflight \/ Fallback

Spec == Init /\ [][Next]_vars

----------------------------------------------------------------------------
(* Properties of full_debug_prep *)

\* the debugger-entry statement of a file: its first such line
RECURSIVE TraceLineOf(_)
TraceLineOf(lines) ==
    IF lines = <<>> THEN L(Spaces(0), <<>>)
    ELSE IF IsTraceLine(Head(lines)) THEN Head(lines)
    ELSE TraceLineOf(Tail(lines))

IsTestFileBp(bp) == bp.file = AbsPath

\* the breakpoints that a statement sets on the test file itself
TestFileBps(l) == SelectSeq(l.bps, IsTestFileBp)

\* the content of line n of a file; a blank record when there is no line n
LineAt(lines, n) ==
    IF n \in 1..Len(lines) THEN lines[n] ELSE L(Spaces(0), <<>>)

RunEnded == pc \in {"done", "raised"} /\ log # <<>>

PreflightFailed == preflight.ran /\ ~preflight.raised /\ ~preflight.ok

\* C1: when a run whose source parses has ended, the file on disk is the
\* FixtureFallback rewrite (Neutralizer on the original lines, then
\* inject_setup_trace, then patch_postmortem) iff run_preflight returned
\* not-ok; otherwise it is the Direct rewrite and was written once.
C1_FallbackIffPreflightFailed ==
    RunEnded =>
        IF PreflightFailed
        THEN /\ log = <<"write direct", "preflight", "write fallback">>
             /\ disk = WriteLines(patch_postmortem(
                    inject_setup_trace(
                        neutralize_alarms(remove_timeouts(original_lines)),
                        debugger, method, fail_line, AbsPath,
                        user_error.file, user_error.line, store).lines,
                    debugger))
        ELSE /\ log = <<"write direct", "preflight">>
             /\ disk = WriteLines(patch_postmortem(
                    inject_set_trace(original_lines, method, fail_line,
                        AbsPath, debugger, user_error.file, user_error.line,
                        store).lines,
                    debugger))

\* a run that fell back because setUp failed, and whose two rewrites differ
C1_Witness ==
    /\ pc = "done"
    /\ preflight.msg = <<"setUp failed: ", "e">>
    /\ log = <<"write direct", "preflight", "write fallback">>
    /\ disk # WriteLines(DirectRewrite(original_lines, method, fail_line,
                                       debugger, user_error, store).lines)

\* C9: run_preflight is executed exactly once in a run whose source parses,
\* after the Direct write and before any fallback write; nothing is
\* executed after the fallback write, and the file is written at most twice.
C9_OnePreflightBetweenWrites ==
    /\ IsPrefix(log, <<"write direct", "preflight", "write fallback">>)
    /\ RunEnded => Len(log) >= 2
    /\ pc = "raised" => Len(log) \in {0, 2}

\* a run that ended after the fallback write
C9_Witness ==
    /\ pc = "done"
    /\ log = <<"write direct", "preflight", "write fallback">>
    /\ PreflightFailed

\* C2 as claimed: after a FixtureFallback run, the test-file breakpoints of
\* the emitted statement designate, in the final file, the first body
\* statement of the target method and the original failure line F.
C2_FallbackBreakpointsAgainstFinalFile ==
    (pc = "done" /\ PreflightFailed) =>
        LET tb == TestFileBps(TraceLineOf(disk))
            m == WalkFindDef(original_lines, method)
        IN  /\ m # 0 =>
                /\ Len(tb) >= 1
                /\ LineAt(disk, tb[1].line)
                     = original_lines[BodyLineno(original_lines, m)]
            /\ fail_line > 0 =>
                /\ Len(tb) >= 1
                /\ LineAt(disk, tb[Len(tb)].line) = original_lines[fail_line]

----------------------------------------------------------------------------
(* Direct calls of run_preflight *)

Idle ==
    /\ original_lines = <<>>
    /\ method = ""
    /\ fail_line = 0
    /\ debugger = "pudb"
    /\ user_error = NoUserError
    /\ store = NoStore
    /\ disk = <<>>
    /\ pc = "idle"
    /\ preflight = PfNotRun
    /\ log = <<>>

orchestrator == <<original_lines, method, fail_line, debugger, user_error,
                  store, disk, pc, preflight, log>>

InitPreflight ==
    /\ Idle
    /\ call \in {[fn |-> "run_preflight", env |-> e, meth |-> m] :
                    e \in Envs, m \in Methods}
    /\ result = NoCall

CallPreflight ==
    /\ call.fn = "run_preflight"
    /\ result = NoCall
    /\ result' = [fn |-> call.fn, val |-> run_preflight(call.env, call.meth),
                  steps |-> PfSteps(call.env, call.meth)]
    /\ UNCHANGED <<orchestrator, call>>

NextPreflight == CallPreflight

SpecPreflight == InitPreflight /\ [][NextPreflight]_vars

\* C8 as claimed: run_preflight always returns a pair and never raises; it
\* returns (True, '') iff the import, the class lookup, the construction
\* and setUp all succeed; otherwise ok is False with the message of the
\* first failing check.
C8_PreflightAlwaysReturnsPair ==
    result.fn = "run_preflight" =>
        LET env == call.env
            k == TargetClass(env.ns, call.meth, 1)
            v == result.val
        IN  /\ ~v.raised
            /\ v.ok <=> /\ env.import = "ok"
                        /\ k # 0
                        /\ SetUpOutcome(env.ns[k]) = "ok"
            /\ v.ok => v.msg = <<>>
            /\ env.import # "ok" => v.msg[1] = "Import error: "
            /\ (env.import = "ok" /\ k = 0) =>
                   v.msg = <<"No TestCase class contains method ", call.meth>>
            /\ (env.import = "ok" /\ k # 0 /\ ~v.ok) =>
                   v.msg[1] = "setUp failed: "

----------------------------------------------------------------------------
(* Direct calls of the Source Transformer and the Environment Neutralizer *)

GivenUserError == CHOOSE ue \in UserErrors : ue # NoUserError

GivenStore == CHOOSE st \in Stores : st # NoStore

Configs == {[dbg |-> "pudb", ue |-> NoUserError, st |-> NoStore],
            [dbg |-> "pdbpp", ue |-> GivenUserError, st |-> GivenStore]}

InitInject ==
    /\ Idle
    /\ \/ \E u \in Units : \E f \in SpecialFiles(u) :
          \E m \in Methods, fl \in 0..Len(f), a \in {NoPath, AbsPath},
             c \in Configs,
             fn \in {"inject_setup_trace", "inject_set_trace"} :
             call = [fn |-> fn, lines |-> f, meth |-> m, fl |-> fl,
                     abs_path |-> a, cfg |-> c]
       \/ \E u \in Units, n \in 1..MaxMembers :
          \E ms \in [1..n -> MemberTemplates(u)] :
             \/ \E m \in Methods \cup {""}, fl \in 0..Len(ClassFile(ms)),
                   a \in {NoPath, AbsPath}, c \in Configs :
                   call = [fn |-> "inject_setup_trace", lines |-> ClassFile(ms),
                           meth |-> m, fl |-> fl, abs_path |-> a, cfg |-> c]
             \/ \E m \in Methods, fl \in 0..Len(ClassFile(ms)),
                   a \in {NoPath, AbsPath}, c \in Configs :
                   call = [fn |-> "inject_set_trace", lines |-> ClassFile(ms),
                           meth |-> m, fl |-> fl, abs_path |-> a, cfg |-> c]
             \/ \E r \in Runners :
                   call = [fn |-> "neutralize", lines |-> ClassFile(ms) \o r]
             \/ call = [fn |-> "neutralize_alarms", lines |-> ClassFile(ms)]
             \/ \E z \in {<<>>, ReraisingMember(u)}, r \in Runners,
                   d \in Debuggers :
                   call = [fn |-> "patch_postmortem",
                           lines |-> ClassFile(ms) \o z \o r, dbg |-> d]
    /\ result = NoCall

CallInjectSetup ==
    /\ call.fn = "inject_setup_trace"
    /\ result = NoCall
    /\ result' = [fn |-> call.fn,
                  val |-> inject_setup_trace(call.lines, call.cfg.dbg,
                              call.meth, call.fl, call.abs_path,
                              call.cfg.ue.file, call.cfg.ue.line,
                              call.cfg.st)]
    /\ UNCHANGED <<orchestrator, call>>

CallNeutralize ==
    /\ call.fn = "neutralize"
    /\ result = NoCall
    /\ result' = [fn |-> call.fn,
                  val |-> neutralize_alarms(remove_timeouts(call.lines))]
    /\ UNCHANGED <<orchestrator, call>>

CallNeutralizeAlarms ==
    /\ call.fn = "neutralize_alarms"
    /\ result = NoCall
    /\ result' = [fn |-> call.fn, val |-> neutralize_alarms(call.lines)]
    /\ UNCHANGED <<orchestrator, call>>

CallInjectSetTrace ==
    /\ call.fn = "inject_set_trace"
    /\ result = NoCall
    /\ result' = [fn |-> call.fn,
                  val |-> inject_set_trace(call.lines, call.meth, call.fl,
                              call.abs_path, call.cfg.dbg, call.cfg.ue.file,
                              call.cfg.ue.line, call.cfg.st)]
    /\ UNCHANGED <<orchestrator, call>>

CallPatchPostmortem ==
    /\ call.fn = "patch_postmortem"
    /\ result = NoCall
    /\ result' = [fn |-> call.fn, val |-> patch_postmortem(call.lines, call.dbg)]
    /\ UNCHANGED <<orchestrator, call>>

NextInject ==
    \/ CallInjectSetup
    \/ CallNeutralize
    \/ CallNeutralizeAlarms
    \/ CallInjectSetTrace
    \/ CallPatchPostmortem

SpecInject == InitInject /\ [][NextInject]_vars

\* C3: inject_setup_trace on a file with a setUp, a target method whose
\* first body statement is at L1, a failure line L2 # L1 and an abs_path
\* emits exactly the test-file breakpoints (abs_path, L1 + 1) and
\* (abs_path, L2 + 1), in this order.
C3_SetupBreakpointsOffsetByOne ==
    (/\ result.fn = "inject_setup_trace"
     /\ ~result.val.raised
     /\ DefsNamed(call.lines, "setUp") # {}
     /\ DefsNamed(call.lines, call.meth) # {}
     /\ call.abs_path # NoPath
     /\ call.fl # 0) =>
        LET L1 == BodyLineno(call.lines, WalkFindDef(call.lines, call.meth))
            L2 == call.fl
        IN  L2 # L1 =>
                TestFileBps(TraceLineOf(result.val.lines))
                    = <<Bp(call.abs_path, L1 + 1), Bp(call.abs_path, L2 + 1)>>

\* the case of test_setup_injection_with_breakpoints: setUp above the
\* target method, failure on the second statement of its body
C3_Witness ==
    /\ result.fn = "inject_setup_trace"
    /\ DefsNamed(call.lines, "setUp") = {3}
    /\ DefsNamed(call.lines, call.meth) = {5}
    /\ call.fl = 7
    /\ TestFileBps(TraceLineOf(result.val.lines))
          = <<Bp(AbsPath, 7), Bp(AbsPath, 8)>>

HasAlarmCall(l) == \E i \in 1..Len(l.toks) : l.toks[i] = "signal.alarm("

\* the positions of lines that are kept, in increasing order
RECURSIVE KeptPositions(_, _)
KeptPositions(lines, i) ==
    IF i > Len(lines) THEN <<>>
    ELSE IF lines[i].toks # <<>> /\ lines[i].toks[1] = "@timeout"
         THEN KeptPositions(lines, i + 1)
    ELSE <<i>> \o KeptPositions(lines, i + 1)

\* C10: the Neutralizer returns the input lines that are not @timeout
\* decorator lines, in their order; a line without signal.alarm call is
\* unchanged, other decorators included; an input without @timeout line
\* and without signal.alarm call is returned as it is.
C10_NeutralizerKeepsOtherLines ==
    result.fn = "neutralize" =>
        LET inp == call.lines
            out == result.val
            kept == KeptPositions(inp, 1)
        IN  /\ Len(out) = Len(kept)
            /\ \A k \in 1..Len(kept) :
                  /\ out[k].ws = inp[kept[k]].ws
                  /\ ~HasAlarmCall(inp[kept[k]]) => out[k] = inp[kept[k]]
            /\ (\A i \in 1..Len(inp) :
                    ~HasAlarmCall(inp[i]) /\ Len(kept) = Len(inp)) => out = inp

\* an input with a @timeout line, another decorator and an alarm call
C10_Witness ==
    /\ result.fn = "neutralize"
    /\ \E i, j, k \in 1..Len(call.lines) :
          /\ call.lines[i].toks[1] = "@timeout"
          /\ call.lines[j].toks[1] = "@mock.patch"
          /\ HasAlarmCall(call.lines[k])
    /\ Len(result.val) = Len(call.lines) - 1
    /\ \E k \in 1..Len(result.val) : result.val[k].toks[1] = "@mock.patch"

\* the argument tokens of the call opened at position i: the tokens up to
\* the ")" that closes it, <<"?">> when the call is not closed on the line
RECURSIVE CallArgs(_, _, _)
CallArgs(toks, j, d) ==
    IF j > Len(toks) THEN <<"?">>
    ELSE IF toks[j] = ")" /\ d = 0 THEN <<>>
    ELSE IF toks[j] = ")" THEN <<toks[j]>> \o CallArgs(toks, j + 1, d - 1)
    ELSE IF toks[j] \in {"(", "signal.alarm("}
         THEN <<toks[j]>> \o CallArgs(toks, j + 1, d + 1)
    ELSE <<toks[j]>> \o CallArgs(toks, j + 1, d)

\* C11 as claimed: neutralize_alarms keeps the number of lines, turns the
\* whole argument list of every signal.alarm call into 0, and a line whose
\* parentheses are balanced before the rewrite has them balanced after it,
\* nested parentheses in the argument included.
C11_AlarmRewriteKeepsBalance ==
    result.fn = "neutralize_alarms" =>
        /\ Len(result.val) = Len(call.lines)
        /\ \A i \in 1..Len(result.val) :
              /\ Balanced(call.lines[i]) => Balanced(result.val[i])
              /\ \A j \in 1..Len(result.val[i].toks) :
                    result.val[i].toks[j] = "signal.alarm(" =>
                        CallArgs(result.val[i].toks, j + 1, 0) = <<"0">>

\* a call of one of the two injection functions that returned
Injected ==
    /\ result.fn \in {"inject_setup_trace", "inject_set_trace"}
    /\ ~result.val.raised

\* the lines the statement is inserted into: the input of
\* inject_setup_trace, the neutralized input of inject_set_trace
InsertionInput ==
    IF call.fn = "inject_set_trace"
    THEN neutralize_alarms(remove_timeouts(call.lines))
    ELSE call.lines

\* the declaration the call looks for
LookedFor == IF call.fn = "inject_set_trace" THEN call.meth ELSE "setUp"

\* the positions of the debugger-entry statements of a file
TracePositions(lines) == {k \in 1..Len(lines) : IsTraceLine(lines[k])}

\* the sequence without its element at position k
RemoveAt(s, k) == SubSeq(s, 1, k - 1) \o SubSeq(s, k + 1, Len(s))

\* C12: the output of inject_setup_trace has exactly one more line than its
\* input, the output of inject_set_trace one more than its neutralized
\* input; the output holds one inserted statement, and without it the
\* output is that input, line for line.
C12_OneLineInsertedOthersKept ==
    Injected =>
        LET out == result.val.lines
        IN  /\ Len(out) = Len(InsertionInput) + 1
            /\ Cardinality(TracePositions(out)) = 1
            /\ \A k \in TracePositions(out) : RemoveAt(out, k) = InsertionInput

\* inject_set_trace on a file with a @timeout line and an alarm call: one
\* line removed, one inserted in the body of the method that is found
C12_Witness ==
    /\ Injected
    /\ call.fn = "inject_set_trace"
    /\ InsertionInput # call.lines
    /\ Len(result.val.lines) = Len(call.lines)
    /\ \E i \in 1..Len(call.lines) : HasAlarmCall(call.lines[i])
    /\ TracePositions(result.val.lines) # {1}

\* C13 as claimed: when the declaration looked for is found, the inserted
\* line stands immediately before the first statement of its body and has
\* exactly that statement's leading whitespace, spaces or tabs.
C13_InsertedLineReproducesIndentation ==
    (Injected /\ DefsNamed(InsertionInput, LookedFor) # {}) =>
        LET out == result.val.lines
            first == BodyLineno(InsertionInput,
                                WalkFindDef(InsertionInput, LookedFor))
        IN  /\ IsTraceLine(out[first])
            /\ out[first + 1] = InsertionInput[first]
            /\ out[first].ws = out[first + 1].ws

\* the valid entries of the store the call was made with, in store order
StoreBps ==
    IF call.cfg.st = NoStore THEN NoBps
    ELSE <<Bp(<<"/a/b.py">>, 25), Bp(<<"/c/d.py">>, 7)>>

\* C15: on every injection path and for both debuggers the inserted
\* statement is made of, in this order: the debugger import and the
\* debugger object; the set_break calls of the test-file breakpoints, then
\* of the user-error breakpoint when its file and line are given, then of
\* each valid store entry in store order with that entry's path and line;
\* the error-summary print; set_trace as the last part.
C15_StatementPartsInOrder ==
    Injected =>
        \A p \in TracePositions(result.val.lines) :
            LET t == result.val.lines[p]
                pdb == call.cfg.dbg = "pdbpp"
                h == IF pdb THEN 3 ELSE 2
                U == UserErrorBps(call.cfg.ue.file, call.cfg.ue.line)
                nT == Len(t.bps) - Len(U) - Len(StoreBps)
            IN  /\ SubSeq(t.toks, 1, h)
                     = IF pdb THEN <<"import pdb", "sticky_by_default",
                                     "_dbg = pdb.Pdb()">>
                       ELSE <<"import pudb", "_dbg = pudb._get_debugger()">>
                /\ Len(t.toks) = h + Len(t.bps) + 2
                /\ \A k \in (h + 1)..(h + Len(t.bps)) :
                      t.toks[k] = "_dbg.set_break"
                /\ t.toks[Len(t.toks) - 1] = "error_summary"
                /\ t.toks[Len(t.toks)]
                     = IF pdb THEN "pdb.set_trace()" ELSE "pudb.set_trace()"
                /\ nT >= 0
                /\ \A k \in 1..nT : t.bps[k].file = call.abs_path
                /\ SubSeq(t.bps, nT + 1, nT + Len(U)) = U
                /\ SubSeq(t.bps, nT + Len(U) + 1, Len(t.bps)) = StoreBps

\* inject_setup_trace for pdb++ with two test-file breakpoints, a
\* user-error breakpoint and a store with two valid entries
C15_Witness ==
    /\ Injected
    /\ call.fn = "inject_setup_trace"
    /\ call.cfg.dbg = "pdbpp"
    /\ \E p \in TracePositions(result.val.lines) :
          /\ Len(result.val.lines[p].bps) = 5
          /\ result.val.lines[p].bps[3] = Bp(<<"/home/user/my_module.py">>, 42)
          /\ result.val.lines[p].bps[4] = Bp(<<"/a/b.py">>, 25)
          /\ result.val.lines[p].bps[5] = Bp(<<"/c/d.py">>, 7)
          /\ Len(result.val.lines[p].toks) = 10

\* C14 as claimed: when the declaration looked for does not exist, no error
\* is raised, the statement is the first line of the output, without
\* indentation, followed by the lines it was inserted into, unchanged; the
\* statement of inject_set_trace then has no breakpoint on the test file.
C14_NotFoundInsertsAtTop ==
    (/\ result.fn \in {"inject_setup_trace", "inject_set_trace"}
     /\ DefsNamed(call.lines, LookedFor) = {}) =>
        /\ ~result.val.raised
        /\ IsTraceLine(result.val.lines[1])
        /\ result.val.lines[1].ws = <<>>
        /\ Tail(result.val.lines) = InsertionInput
        /\ call.fn = "inject_set_trace" =>
               TestFileBps(result.val.lines[1]) = <<>>

\* the positions of the lines whose stripped content is 'raise e'
RaisePositions(lines) ==
    {i \in 1..Len(lines) : lines[i].toks = <<"raise e">>}

\* C17: patch_postmortem replaces the first line whose stripped content is
\* 'raise e' by the post-mortem statements of the requested debugger, and
\* keeps every other line, later 'raise e' lines included, unchanged and in
\* order; without such a line the output is the input.
C17_OnlyFirstRaiseReplaced ==
    result.fn = "patch_postmortem" =>
        LET inp == call.lines
            out == result.val
            R == RaisePositions(inp)
        IN  /\ Len(out) = Len(inp)
            /\ R = {} => out = inp
            /\ \A i \in 1..Len(inp) :
                  IF i \in R /\ \A j \in R : i <= j
                  THEN LET ph == PhysicalLines(out[i])
                       IN  /\ IsPostMortem(out[i])
                           /\ Len(ph) = 7
                           /\ ph[7].toks
                                = <<"import",
                                    IF call.dbg = "pudb" THEN "pudb" ELSE "pdb",
                                    "post_mortem()">>
                  ELSE out[i] = inp[i]

\* a file with two 'raise e' lines: the user's is replaced, the runner's
\* is kept
C17_Witness ==
    /\ result.fn = "patch_postmortem"
    /\ Cardinality(RaisePositions(call.lines)) = 2
    /\ Cardinality(RaisePositions(result.val)) = 1
    /\ result.val[Len(result.val)].toks = <<"raise e">>
    /\ call.dbg = "pdbpp"

----------------------------------------------------------------------------
(* Traceback Triager.  A path is the sequence of its components between    *)
(* '/' separators, with a leading "" when it is absolute; a traceback is   *)
(* the sequence of its 'File "X", line N' records:                         *)
(*   [path, lineno, hasIn, name], hasIn telling whether ", in NAME"        *)
(* follows on the line (it does not in a SyntaxError report).              *)

\* os.path.basename(path)
Basename(path) == IF path = NoPath THEN "" ELSE path[Len(path)]

\* path.startswith('<')
StartsSynthetic(path) ==
    path # NoPath /\ path[1] \in {"<string>", "<frozen importlib._bootstrap>"}

\* '/lib/python' in path
HasLibPython(path) ==
    \E i \in 2..(Len(path) - 1) :
        path[i] = "lib" /\ path[i + 1] \in {"python3.10", "python"}

\* '\\lib\\python' in path
HasLibPythonBackslash(path) ==
    \E i \in 1..Len(path) : path[i] \in {"C:\\Python\\lib\\python3\\json.py"}

\* 'site-packages' in path
HasSitePackages(path) == \E i \in 1..Len(path) : path[i] = "site-packages"

\* 'dist-packages' in path
HasDistPackages(path) == \E i \in 1..Len(path) : path[i] = "dist-packages"

_is_stdlib_or_thirdparty(path) ==
    \/ StartsSynthetic(path)
    \/ HasLibPython(path) \/ HasLibPythonBackslash(path)
    \/ HasSitePackages(path) \/ HasDistPackages(path)

\* 'debug_this_test' in file_basename or 'watch_' in file_basename
HasGeneratedMarker(base) ==
    base \in {"debug_this_test.py", "debug_this_test_foo.py", "watch_a.py"}

\* mutant: the bracketed parametrization is stripped too
StripName_Brackets(n) ==
    IF n = "helper " THEN "helper"
    ELSE IF n = "test_foo[p1]" THEN "test_foo"
    ELSE n

\* method.strip()
StripName(n) == IF n = "helper " THEN "helper" ELSE n

\* lines 228-232 of extract_relevant_traceback; test_file = NoPath stands
\* for None
IsTestFileFrame(path, test_file) ==
    /\ Basename(test_file) # ""
    /\ \/ Basename(path) = Basename(test_file)
       \/ HasGeneratedMarker(Basename(path))

Frame(r) == [path |-> r.path, lineno |-> r.lineno, name |-> StripName(r.name)]

\* mutant: the loop breaks at a stdlib frame even when nothing was included
RECURSIVE RelevantLoop_AlwaysBreak(_, _, _, _)
RelevantLoop_AlwaysBreak(recs, k, test_file, relevant_frames) ==
    IF k > Len(recs) THEN relevant_frames
    ELSE LET f == Frame(recs[k])
             is_test_file == IsTestFileFrame(f.path, test_file)
             is_stdlib == _is_stdlib_or_thirdparty(f.path)
             is_runner == is_test_file /\ f.name = "<module>"
         IN  IF ~recs[k].hasIn \/ is_runner
                THEN RelevantLoop_AlwaysBreak(recs, k + 1, test_file,
                                              relevant_frames)
             ELSE IF ~is_test_file /\ is_stdlib THEN relevant_frames
             ELSE RelevantLoop_AlwaysBreak(recs, k + 1, test_file,
                                           Append(relevant_frames, f))

\* mutant: a stdlib frame is skipped, the loop never stops
RECURSIVE RelevantLoop_NeverBreak(_, _, _, _)
RelevantLoop_NeverBreak(recs, k, test_file, relevant_frames) ==
    IF k > Len(recs) THEN relevant_frames
    ELSE LET f == Frame(recs[k])
             is_test_file == IsTestFileFrame(f.path, test_file)
             is_stdlib == _is_stdlib_or_thirdparty(f.path)
             is_runner == is_test_file /\ f.name = "<module>"
         IN  IF ~recs[k].hasIn \/ is_runner \/ (~is_test_file /\ is_stdlib)
                THEN RelevantLoop_NeverBreak(recs, k + 1, test_file,
                                             relevant_frames)
             ELSE RelevantLoop_NeverBreak(recs, k + 1, test_file,
                                          Append(relevant_frames, f))

\* the loop of extract_relevant_traceback from record k on
RECURSIVE RelevantLoop(_, _, _, _)
RelevantLoop(recs, k, test_file, relevant_frames) ==
    IF k > Len(recs) THEN relevant_frames
    ELSE LET f == Frame(recs[k])
             is_test_file == IsTestFileFrame(f.path, test_file)
             is_stdlib == _is_stdlib_or_thirdparty(f.path)
             is_runner == is_test_file /\ f.name = "<module>"
         IN  IF ~recs[k].hasIn
                THEN RelevantLoop(recs, k + 1, test_file, relevant_frames)
             ELSE IF is_runner
                THEN RelevantLoop(recs, k + 1, test_file, relevant_frames)
             ELSE IF is_test_file
                THEN RelevantLoop(recs, k + 1, test_file,
                                  Append(relevant_frames, f))
             ELSE IF is_stdlib
                THEN IF relevant_frames # <<>> THEN relevant_frames
                     ELSE RelevantLoop(recs, k + 1, test_file, relevant_frames)
             ELSE RelevantLoop(recs, k + 1, test_file,
                               Append(relevant_frames, f))

extract_relevant_traceback(text, test_file) ==
    RelevantLoop(text, 1, test_file, <<>>)

NoLocation == [path |-> NoPath, lineno |-> 0]

\* the loop of extract_user_error_location, keeping the last user frame
RECURSIVE UserLoop(_, _, _, _)
UserLoop(recs, k, test_file, last) ==
    IF k > Len(recs) THEN last
    ELSE LET path == recs[k].path
         IN  IF test_file # NoPath /\ Basename(path) = Basename(test_file)
                THEN UserLoop(recs, k + 1, test_file, last)
             ELSE IF HasLibPython(path) \/ HasSitePackages(path)
                THEN UserLoop(recs, k + 1, test_file, last)
             ELSE IF StartsSynthetic(path)
                THEN UserLoop(recs, k + 1, test_file, last)
             ELSE UserLoop(recs, k + 1, test_file,
                           [path |-> path, lineno |-> recs[k].lineno])

extract_user_error_location(text, test_file) ==
    UserLoop(text, 1, test_file, NoLocation)

\* mutant: the first match is returned
RECURSIVE FailLoop_FirstMatch(_, _, _, _, _)
FailLoop_FirstMatch(recs, k, target_file, meth, last) ==
    IF k > Len(recs) THEN last
    ELSE IF /\ recs[k].hasIn
            /\ Basename(recs[k].path) = Basename(target_file)
            /\ StripName(recs[k].name) = meth
         THEN recs[k].lineno
    ELSE FailLoop_FirstMatch(recs, k + 1, target_file, meth, last)

\* the loop of extract_fail_line, keeping the last match
RECURSIVE FailLoop(_, _, _, _, _)
FailLoop(recs, k, target_file, meth, last) ==
    IF k > Len(recs) THEN last
    ELSE IF /\ recs[k].hasIn
            /\ Basename(recs[k].path) = Basename(target_file)
            /\ StripName(recs[k].name) = meth
         THEN FailLoop(recs, k + 1, target_file, meth, recs[k].lineno)
    ELSE FailLoop(recs, k + 1, target_file, meth, last)

extract_fail_line(text, target_file, meth) ==
    FailLoop(text, 1, target_file, meth, 0)

----------------------------------------------------------------------------
(* Direct calls of the Traceback Triager *)

TestPath == <<"_pretty_testing_", "debug_this_test.py">>
AbsTestPath == <<"", "home", "user", "debug_this_test.py">>
WatchPath == <<"", "home", "user", "watch_a.py">>
UserPath == <<"", "home", "user", "my_module.py">>
StdlibPath == <<"", "usr", "lib", "python3.10", "json.py">>
DistPath == <<"", "usr", "dist-packages", "apt.py">>
SyntheticPath == <<"<string>">>
WindowsPath == <<"C:\\Python\\lib\\python3\\json.py">>

Rec(path, name) == [path |-> path, hasIn |-> TRUE, name |-> name]

TestRec == Rec(TestPath, "test_foo")
RunnerRec == Rec(TestPath, "<module>")
BracketRec == Rec(TestPath, "test_foo[p1]")
AbsTestRec == Rec(AbsTestPath, "test_foo")
WatchRec == Rec(WatchPath, "<module>")
UserRec == Rec(UserPath, "helper ")
UserSameNameRec == Rec(UserPath, "test_foo")
StdlibRec == Rec(StdlibPath, "loads")
DistRec == Rec(DistPath, "f")
SyntheticRec == Rec(SyntheticPath, "<module>")
WindowsRec == Rec(WindowsPath, "f")
NoInRec == [path |-> UserPath, hasIn |-> FALSE, name |-> ""]

\* the text made of the records t: the record at position k reports
\* line 10 * k
Text(t) ==
    [k \in 1..Len(t) |-> [path |-> t[k].path, lineno |-> 10 * k,
                          hasIn |-> t[k].hasIn, name |-> t[k].name]]

RelevantRecs ==
    {TestRec, RunnerRec, WatchRec, UserRec, StdlibRec, DistRec, SyntheticRec}

UserLocationRecs ==
    {TestRec, WatchRec, UserRec, StdlibRec, DistRec, SyntheticRec,
     WindowsRec, NoInRec}

FailLineRecs ==
    {TestRec, RunnerRec, BracketRec, AbsTestRec, UserSameNameRec, NoInRec}

TriageCall(fn, t, f, m) ==
    [fn |-> fn, text |-> Text(t), file |-> f, meth |-> m]

InitTriage ==
    /\ Idle
    /\ \E n \in 0..MaxFrames :
          \/ \E t \in [1..n -> RelevantRecs],
                f \in {NoPath, <<"debug_this_test.py">>, UserPath} :
                call = TriageCall("extract_relevant_traceback", t, f, "")
          \/ \E t \in [1..n -> UserLocationRecs],
                f \in {NoPath, <<"debug_this_test.py">>} :
                call = TriageCall("extract_user_error_location", t, f, "")
          \/ \E t \in [1..n -> FailLineRecs],
                f \in {<<"debug_this_test.py">>, UserPath},
                m \in {"test_foo", "test_foo[p1]"} :
                call = TriageCall("extract_fail_line", t, f, m)
    /\ result = NoCall

CallRelevant ==
    /\ call.fn = "extract_relevant_traceback"
    /\ result = NoCall
    /\ result' = [fn |-> call.fn,
                  val |-> extract_relevant_traceback(call.text, call.file)]
    /\ UNCHANGED <<orchestrator, call>>

CallUserLocation ==
    /\ call.fn = "extract_user_error_location"
    /\ result = NoCall
    /\ result' = [fn |-> call.fn,
                  val |-> extract_user_error_location(call.text, call.file)]
    /\ UNCHANGED <<orchestrator, call>>

CallFailLine ==
    /\ call.fn = "extract_fail_line"
    /\ result = NoCall
    /\ result' = [fn |-> call.fn,
                  val |-> extract_fail_line(call.text, call.file, call.meth)]
    /\ UNCHANGED <<orchestrator, call>>

NextTriage == CallRelevant \/ CallUserLocation \/ CallFailLine

SpecTriage == InitTriage /\ [][NextTriage]_vars

----------------------------------------------------------------------------
(* Properties of the Traceback Triager *)

\* the records that the frame pattern 'File "X", line N, in NAME' matches
RECURSIVE FramesOf(_)
FramesOf(text) ==
    IF text = <<>> THEN <<>>
    ELSE IF Head(text).hasIn THEN <<Frame(Head(text))>> \o FramesOf(Tail(text))
    ELSE FramesOf(Tail(text))

\* the class of a frame: runner, test, stdlib or user
FrameClass(f, test_file) ==
    LET inTestFile ==
            /\ test_file # NoPath
            /\ \/ Basename(f.path) = Basename(test_file)
               \/ HasGeneratedMarker(Basename(f.path))
    IN  IF inTestFile /\ f.name = "<module>" THEN "runner"
        ELSE IF inTestFile THEN "test"
        ELSE IF _is_stdlib_or_thirdparty(f.path) THEN "stdlib"
        ELSE "user"

\* the elements of a set of numbers, in increasing order
RECURSIVE Sorted(_)
Sorted(S) ==
    IF S = {} THEN <<>>
    ELSE LET m == CHOOSE x \in S : \A y \in S : x <= y
         IN  <<m>> \o Sorted(S \ {m})

SetMax(S) == CHOOSE x \in S : \A y \in S : y <= x

C5_FailLineOfLastMatch ==
    result.fn = "extract_fail_line" =>
        LET M == {i \in 1..Len(call.text) :
                    /\ call.text[i].hasIn
                    /\ call.text[i].path[Len(call.text[i].path)]
                         = call.file[Len(call.file)]
                    /\ call.text[i].name = call.meth}
        IN  result.val = IF M = {} THEN 0 ELSE call.text[SetMax(M)].lineno

\* two matching frames in files of different directories, the last wins
C5_Witness ==
    /\ result.fn = "extract_fail_line"
    /\ call.text = Text(<<TestRec, RunnerRec, AbsTestRec, UserSameNameRec>>)
    /\ call.file = <<"debug_this_test.py">>
    /\ call.meth = "test_foo"
    /\ result.val = 30

HasBrackets(n) == n \in {"test_foo[p1]"}

\* the name without its bracketed parametrization
StripBrackets(n) == IF n = "test_foo[p1]" THEN "test_foo" ELSE n

\* C6 as claimed: the frame's name is compared to method after its
\* bracketed parametrization is stripped, so a frame 'test_foo[p1]' of the
\* target file matches method 'test_foo' and its line number is returned.
C6_BracketsStrippedBeforeCompare ==
    result.fn = "extract_fail_line" =>
        LET M == {i \in 1..Len(call.text) :
                    /\ call.text[i].hasIn
                    /\ Basename(call.text[i].path) = Basename(call.file)
                    /\ StripBrackets(call.text[i].name) = call.meth}
        IN  M # {} => result.val = call.text[SetMax(M)].lineno

\* C6 amended: the frame's name is compared to method with its brackets:
\* a frame 'test_foo[p1]' of the target file is matched when method is
\* 'test_foo[p1]' itself, and is not matched by method 'test_foo'.
C6_BracketedNameMatchedVerbatim ==
    result.fn = "extract_fail_line" =>
        \A i \in 1..Len(call.text) :
            (/\ call.text[i].hasIn
             /\ HasBrackets(call.text[i].name)
             /\ Basename(call.text[i].path) = Basename(call.file)) =>
                /\ call.meth = StripBrackets(call.text[i].name) =>
                      result.val # call.text[i].lineno
                /\ (/\ call.meth = call.text[i].name
                    /\ \A j \in (i + 1)..Len(call.text) :
                          call.text[j].name # call.meth) =>
                      result.val = call.text[i].lineno

\* the bracketed frame follows a plain one: method 'test_foo[p1]' gets the
\* bracketed frame's line
C6_Witness ==
    /\ result.fn = "extract_fail_line"
    /\ call.text = Text(<<TestRec, BracketRec>>)
    /\ call.file = <<"debug_this_test.py">>
    /\ call.meth = "test_foo[p1]"
    /\ result.val = 20

\* C7 as claimed: extract_user_error_location returns the last frame that
\* is neither a test-file frame nor a stdlib/third-party frame by the
\* membership extract_relevant_traceback applies, (None, None) if there is
\* none.
C7_UserLocationNeverTestOrStdlib ==
    result.fn = "extract_user_error_location" =>
        LET U == {i \in 1..Len(call.text) :
                    /\ ~IsTestFileFrame(call.text[i].path, call.file)
                    /\ ~_is_stdlib_or_thirdparty(call.text[i].path)}
        IN  result.val = IF U = {} THEN NoLocation
                         ELSE [path |-> call.text[SetMax(U)].path,
                               lineno |-> call.text[SetMax(U)].lineno]

----------------------------------------------------------------------------
(* Direct calls of read_manual_breakpoints *)

MaxStoreLines == 3   \* lines of the manual breakpoint store

\* "/a/b.py:25", "C:/x.py:7", "", "   ", "no separator", "/a/b.py:abc",
\* "/a/b.py:"
StoreLines ==
    {<<"/a/b.py", "25">>, <<"C", "/x.py", "7">>, <<"">>, <<"   ">>,
     <<"no separator">>, <<"/a/b.py", "abc">>, <<"/a/b.py", "">>}

InitStore ==
    /\ Idle
    /\ \/ call = [fn |-> "read_manual_breakpoints", st |-> NoStore]
       \/ \E n \in 0..MaxStoreLines :
             \E ls \in [1..n -> StoreLines] :
                call = [fn |-> "read_manual_breakpoints",
                        st |-> [exists |-> TRUE, lines |-> ls]]
    /\ result = NoCall

CallReadStore ==
    /\ call.fn = "read_manual_breakpoints"
    /\ result = NoCall
    /\ result' = [fn |-> call.fn, val |-> read_manual_breakpoints(call.st)]
    /\ UNCHANGED <<orchestrator, call>>

NextStore == CallReadStore

SpecStore == InitStore /\ [][NextStore]_vars

\* a store line that has a ':' and an integer after its last ':'
WellFormed(l) == Len(l) >= 2 /\ l[Len(l)] \in {"25", "7"}

\* C16: read_manual_breakpoints returns one (path, line) pair for each
\* well-formed line of the store, in file order, the path being the text
\* before the last ':' and the line the number after it; blank lines, lines
\* without ':' and lines with a non-integer after the last ':' give nothing;
\* a missing store gives the empty list.
C16_StoreEntriesOfWellFormedLines ==
    result.fn = "read_manual_breakpoints" =>
        LET ls == call.st.lines
            idx == Sorted({i \in 1..Len(ls) : WellFormed(ls[i])})
        IN  /\ ~call.st.exists => result.val = <<>>
            /\ Len(result.val) = Len(idx)
            /\ \A k \in 1..Len(idx) :
                  LET l == ls[idx[k]]
                  IN  /\ result.val[k].file = SubSeq(l, 1, Len(l) - 1)
                      /\ result.val[k].line = IF l[Len(l)] = "25" THEN 25 ELSE 7

\* a path that holds a ':' itself, between two lines that are skipped
C16_Witness ==
    /\ result.fn = "read_manual_breakpoints"
    /\ call.st.lines = << <<"/a/b.py", "abc">>, <<"C", "/x.py", "7">>, <<"   ">> >>
    /\ result.val = <<Bp(<<"C", "/x.py">>, 7)>>

----------------------------------------------------------------------------
(* Trace Reconstructor: parse_trace.  A line of the stream is [ws, text]:  *)
(* its leading white space and the rest, colour escapes and the terminator *)
(* left out.  An item of the output is [kind, ws, text]: a section         *)
(* separator, a captured failure-summary line, an unwrapped executed line  *)
(* or a line copied dimmed into the log.                                   *)

MaxStream == 4       \* lines of the raw trace stream

SL(ws, text) == [ws |-> ws, text |-> text]

StreamLines ==
    {SL("", "___TEST_START___"),
     SL("", "___FAILURE_SUMMARY_START___"),
     SL("", "___FAILURE_SUMMARY_END___"),
     SL("", "[EXE] x = 1"),
     SL("", "[EXE] import pudb; _dbg = pudb._get_debugger(); pudb.set_trace()"),
     SL("", "Traceback (most recent call last):"),
     SL("", "FAILED_METHOD: test_foo"),
     SL("    ", "Expected: 2"),
     SL("", "some output")}

\* '___TEST_START___' in clean, and so on
HasTestStart(l) == l.text = "___TEST_START___"
HasSummaryStart(l) == l.text = "___FAILURE_SUMMARY_START___"
HasSummaryEnd(l) == l.text = "___FAILURE_SUMMARY_END___"
HasTraceback(l) == l.text = "Traceback (most recent call last):"

\* clean.startswith('[EXE] ')
IsExe(l) ==
    l.text \in {"[EXE] x = 1",
                "[EXE] import pudb; _dbg = pudb._get_debugger(); pudb.set_trace()"}

\* clean.replace('[EXE] ', '')
UnwrapExe(text) ==
    IF text = "[EXE] x = 1" THEN "x = 1"
    ELSE IF text = "[EXE] import pudb; _dbg = pudb._get_debugger(); pudb.set_trace()"
         THEN "import pudb; _dbg = pudb._get_debugger(); pudb.set_trace()"
    ELSE text

Item(kind, ws, text) == [kind |-> kind, ws |-> ws, text |-> text]

Sep == Item("sep", "", "___SECTION_SEP___")

TraceStart == [state |-> 0, buf_log |-> <<>>, failure_summary |-> <<>>]

\* the loop of parse_trace from line k on
RECURSIVE TraceLoop(_, _, _)
TraceLoop(text, k, st) ==
    IF k > Len(text) THEN st
    ELSE LET l == text[k]
         IN  IF HasTestStart(l)
                THEN TraceLoop(text, k + 1, [st EXCEPT !.state = 1])
             ELSE IF HasSummaryStart(l)
                THEN TraceLoop(text, k + 1, [st EXCEPT !.state = 5])
             ELSE IF HasSummaryEnd(l)
                THEN TraceLoop(text, k + 1, [st EXCEPT !.state = 1])
             ELSE IF st.state = 5
                THEN TraceLoop(text, k + 1,
                         [st EXCEPT !.failure_summary =
                                        Append(@, Item("summary", l.ws, l.text))])
             ELSE IF st.state = 1
                THEN IF IsExe(l)
                        THEN TraceLoop(text, k + 1,
                                 [st EXCEPT !.buf_log =
                                     Append(@, Item("exe", "", UnwrapExe(l.text)))])
                     ELSE IF HasTraceback(l)
                        THEN TraceLoop(text, k + 1, [st EXCEPT !.state = 3])
                     ELSE TraceLoop(text, k + 1,
                              [st EXCEPT !.buf_log =
                                  Append(@, Item("dim", l.ws, l.text))])
             ELSE TraceLoop(text, k + 1, st)

\* the output: separator, failure summary, separator, executed-lines log
parse_trace(text) ==
    LET st == TraceLoop(text, 1, TraceStart)
    IN  <<Sep>> \o st.failure_summary \o <<Sep>> \o st.buf_log

InitTrace ==
    /\ Idle
    /\ \E n \in 0..MaxStream :
          \E t \in [1..n -> StreamLines] :
             call = [fn |-> "parse_trace", text |-> t]
    /\ result = NoCall

CallParseTrace ==
    /\ call.fn = "parse_trace"
    /\ result = NoCall
    /\ result' = [fn |-> call.fn, val |-> parse_trace(call.text)]
    /\ UNCHANGED <<orchestrator, call>>

NextTrace == CallParseTrace

SpecTrace == InitTrace /\ [][NextTrace]_vars

----------------------------------------------------------------------------
(* Properties of the Trace Reconstructor *)

\* the sections of an output: the items between its separators
RECURSIVE Sections(_)
Sections(out) ==
    IF \A k \in 1..Len(out) : out[k] # Sep THEN <<out>>
    ELSE LET p == CHOOSE k \in 1..Len(out) :
                     out[k] = Sep /\ \A j \in 1..(k - 1) : out[j] # Sep
         IN  <<SubSeq(out, 1, p - 1)>> \o Sections(SubSeq(out, p + 1, Len(out)))

\* the executed-lines log of an output: what follows its last separator
LogOf(out) == Sections(out)[Len(Sections(out))]

\* the state of the loop when it reads line k
StateAt(text, k) == TraceLoop(SubSeq(text, 1, k - 1), 1, TraceStart).state

IsMarker(l) == HasTestStart(l) \/ HasSummaryStart(l) \/ HasSummaryEnd(l)

\* C18 as claimed: once a 'Traceback (most recent call last)' line has been
\* read in the in-test state, no later line adds anything to the log or to
\* the failure summary: the output is that of the stream cut after the
\* Traceback line.
C18_NothingAddedAfterTraceback ==
    result.fn = "parse_trace" =>
        \A k \in 1..Len(call.text) :
            (HasTraceback(call.text[k]) /\ StateAt(call.text, k) = 1) =>
                result.val = parse_trace(SubSeq(call.text, 1, k))

\* the position of the first test-start marker, Len(text) + 1 without one
FirstTestStart(text) ==
    IF \A k \in 1..Len(text) : ~HasTestStart(text[k]) THEN Len(text) + 1
    ELSE CHOOSE k \in 1..Len(text) :
            HasTestStart(text[k]) /\ \A j \in 1..(k - 1) : ~HasTestStart(text[j])

\* line i is read between a failure-summary-start marker and the next
\* failure-summary-end marker
BetweenSummaryMarkers(text, i) ==
    /\ ~IsMarker(text[i])
    /\ \E b \in 1..(i - 1) :
          /\ HasSummaryStart(text[b])
          /\ \A j \in (b + 1)..(i - 1) : ~HasSummaryEnd(text[j])

\* C19 as claimed: the output is three sections in fixed order: an empty
\* one, the failure summary, the executed-lines log.  The failure summary
\* is exactly the lines read between a failure-summary-start marker and the
\* next failure-summary-end marker, in order, leading whitespace kept; none
\* of them is in the log; no marker line is in a section; the lines read
\* before the first test-start marker add nothing to the log.
C19_ThreeSectionsSummaryBetweenMarkers ==
    result.fn = "parse_trace" =>
        LET text == call.text
            secs == Sections(result.val)
            idx == Sorted({i \in 1..Len(text) : BetweenSummaryMarkers(text, i)})
        IN  /\ Len(secs) = 3
            /\ secs[1] = <<>>
            /\ secs[2] = [n \in 1..Len(idx) |->
                              Item("summary", text[idx[n]].ws, text[idx[n]].text)]
            /\ \A n \in 1..Len(secs[3]) : secs[3][n].kind \in {"exe", "dim"}
            /\ Len(secs[3])
                 <= Cardinality({i \in 1..Len(text) :
                        ~IsMarker(text[i]) /\ ~BetweenSummaryMarkers(text, i)})
            /\ \A k \in 1..Len(result.val) :
                  result.val[k] # Sep => ~IsMarker(result.val[k])
            /\ LogOf(result.val)
                 = LogOf(parse_trace(SubSeq(text, FirstTestStart(text),
                                            Len(text))))

\* an executed line that holds debugger setup code
IsDebuggerSetup(t) ==
    t \in {"import pudb; _dbg = pudb._get_debugger(); pudb.set_trace()",
           "[EXE] import pudb; _dbg = pudb._get_debugger(); pudb.set_trace()"}

IsFailedMethod(t) == t = "FAILED_METHOD: test_foo"

IsExeItem(it) == it.kind = "exe"

\* C20 as claimed: the executed-lines log holds no '[EXE]' line of debugger
\* setup code and no 'FAILED_METHOD:' line; every other '[EXE]' line read
\* in the in-test state is in the log, in order.
C20_LogWithoutSetupAndFailedMethod ==
    result.fn = "parse_trace" =>
        LET text == call.text
            log_ == LogOf(result.val)
            idx == Sorted({i \in 1..Len(text) :
                            /\ IsExe(text[i])
                            /\ StateAt(text, i) = 1
                            /\ ~IsDebuggerSetup(text[i].text)})
        IN  /\ \A n \in 1..Len(log_) :
                  /\ ~IsDebuggerSetup(log_[n].text)
                  /\ ~IsFailedMethod(log_[n].text)
            /\ SelectSeq(log_, IsExeItem)
                 = [n \in 1..Len(idx) |->
                       Item("exe", "", UnwrapExe(text[idx[n]].text))]

----------------------------------------------------------------------------
(* Parse failure in full_debug_prep *)

\* C21: when the neutralized source of the target file does not parse,
\* full_debug_prep raises out of its first step: nothing is written, the
\* file on disk is the original and run_preflight is not executed.
C21_ParseFailureWritesNothing ==
    ~Parses(neutralize_alarms(remove_timeouts(original_lines))) =>
        /\ pc \in {"start", "raised"}
        /\ disk = original_lines
        /\ log = <<>>
        /\ preflight = PfNotRun

\* a file that parses, whose neutralized source does not: the run has
\* raised
C21_Witness ==
    /\ pc = "raised"
    /\ Parses(original_lines)
    /\ ~Parses(neutralize_alarms(remove_timeouts(original_lines)))
    /\ disk = original_lines
    /\ log = <<>>

----------------------------------------------------------------------------
(* What run_preflight executes *)

\* C22: run_preflight executes at most the module's top-level code, the
\* construction of one test-case instance and one call of that instance's
\* setUp, in this order, and never the target method; the class it uses is
\* a test-case type, is not the test-case base type and has the target
\* method.
C22_PreflightRunsSetupOnly ==
    result.fn = "run_preflight" =>
        LET st == result.steps
            ns == call.env.ns
        IN  /\ Len(st) \in 1..3
            /\ st[1] = Step("exec_module", 0)
            /\ Len(st) >= 2 => st[2].what = "construct"
            /\ Len(st) = 3 => st[3] = Step("setUp", st[2].class)
            /\ \A n \in 1..Len(st) : st[n].what # call.meth
            /\ \A n \in 2..Len(st) :
                  LET c == ns[st[n].class]
                  IN  /\ c.isType /\ c.isTestCase /\ ~c.isBase
                      /\ call.meth \in c.attrs

\* two classes, the first without the target method: the second is
\* constructed and its setUp is called
C22_Witness ==
    /\ result.fn = "run_preflight"
    /\ Len(call.env.ns) = 2
    /\ call.meth \notin call.env.ns[1].attrs
    /\ call.env.ns[1].isTestCase /\ call.env.ns[1].isType
    /\ result.steps = <<Step("exec_module", 0), Step("construct", 2),
                        Step("setUp", 2)>>
    /\ result.val.ok

----------------------------------------------------------------------------
(* Which frames extract_relevant_traceback includes *)

\* the frames of a result, as a set
FrameSet(frames) == {frames[n] : n \in 1..Len(frames)}

\* frame i of fr comes after a stdlib/third-party frame that itself follows
\* a test or user frame
AfterStop(fr, i, test_file) ==
    \E j \in 1..(i - 1) :
        /\ FrameClass(fr[j], test_file) = "stdlib"
        /\ \E k \in 1..(j - 1) :
              FrameClass(fr[k], test_file) \in {"test", "user"}

\* C23 as claimed: every test frame and every user frame of the traceback
\* is in the result, wherever it occurs, after a stdlib/third-party frame
\* too.
C23_EveryTestAndUserFrameIncluded ==
    result.fn = "extract_relevant_traceback" =>
        LET fr == FramesOf(call.text)
        IN  \A i \in 1..Len(fr) :
                FrameClass(fr[i], call.file) \in {"test", "user"} =>
                    fr[i] \in FrameSet(result.val)

\* C23 amended: a test or user frame is in the result exactly when it does
\* not come after a stdlib/third-party frame that follows an included
\* frame; the frames after such a stdlib/third-party frame are left out.
C23_TestAndUserFramesIncludedUntilStop ==
    result.fn = "extract_relevant_traceback" =>
        LET fr == FramesOf(call.text)
        IN  \A i \in 1..Len(fr) :
                FrameClass(fr[i], call.file) \in {"test", "user"} =>
                    (fr[i] \in FrameSet(result.val)
                        <=> ~AfterStop(fr, i, call.file))

\* [test, stdlib, user]: the user frame after the stdlib frame is left out
C23_Witness ==
    /\ result.fn = "extract_relevant_traceback"
    /\ call.text = Text(<<TestRec, StdlibRec, UserRec>>)
    /\ call.file = <<"debug_this_test.py">>
    /\ result.val = <<[path |-> TestPath, lineno |-> 10, name |-> "test_foo"]>>

\* C24 as claimed: a frame whose file base name equals that of the test
\* file or holds a generated-file marker is a test-file frame, for every
\* test-file argument, none given included: its '<module>' frames are
\* dropped as runner frames and no other frame is dropped as one.
C24_TestFileFramesWithoutArgument ==
    result.fn = "extract_relevant_traceback" =>
        LET fr == FramesOf(call.text)
            inTestFile(f) ==
                \/ Basename(f.path) = Basename(call.file)
                \/ HasGeneratedMarker(Basename(f.path))
        IN  \A i \in 1..Len(fr) :
                (inTestFile(fr[i]) /\ fr[i].name = "<module>") =>
                    fr[i] \notin FrameSet(result.val)

----------------------------------------------------------------------------
(* Which declaration the injection functions locate *)

\* the least element of a non-empty set of line numbers
SetMin(S) == CHOOSE i \in S : \A j \in S : i <= j

\* the declarations named LookedFor in the lines the statement goes into
Candidates == DefsNamed(InsertionInput, LookedFor)

\* the candidates of least depth in the syntax tree
Shallowest ==
    LET dep == Parse(InsertionInput).depths
    IN  {i \in Candidates : \A j \in Candidates : dep[i] <= dep[j]}

\* C25 as claimed: among several declarations of the searched name the
\* statement goes into the first one in source order, whatever the nesting
\* depth of the declarations.
C25_FirstMatchInSourceOrder ==
    (Injected /\ Candidates # {}) =>
        TracePositions(result.val.lines)
            = {BodyLineno(InsertionInput, SetMin(Candidates))}

\* C25 amended: among several declarations of the searched name the
\* statement goes into the one of least nesting depth, and into the first
\* in source order among those of that depth: a top-level function is
\* chosen over a same-named method declared above it.
C25_ShallowestMatchThenSourceOrder ==
    (Injected /\ Candidates # {}) =>
        TracePositions(result.val.lines)
            = {BodyLineno(InsertionInput, SetMin(Shallowest))}

\* a method test_x at line 3 and a top-level test_x at line 8: the
\* statement is inserted at line 9, in the top-level function
C25_Witness ==
    /\ Injected
    /\ call.fn = "inject_set_trace"
    /\ call.lines = ShadowedFile(" ")
    /\ call.meth = "test_x"
    /\ SetMin(Candidates) = 3
    /\ TracePositions(result.val.lines) = {9}

----------------------------------------------------------------------------
(* The failure line of inject_set_trace *)

\* a call of inject_set_trace that found its target method
SetTraceFound ==
    /\ Injected
    /\ call.fn = "inject_set_trace"
    /\ Candidates # {}

\* the number of @timeout decorator lines among original lines 1..n
TimeoutLinesUpTo(n) ==
    Cardinality({i \in 1..n : /\ i <= Len(call.lines)
                              /\ call.lines[i].toks # <<>>
                              /\ call.lines[i].toks[1] = "@timeout"})

\* the original line number of the first body statement of the located
\* method
TargetBodyLine ==
    KeptPositions(call.lines, 1)[BodyLineno(InsertionInput,
                                            SetMin(Shallowest))]

\* the breakpoint is F - k + 1, and none when F is 0
BreakpointAtAdjustedLine ==
    LET F == call.fl
        k == TimeoutLinesUpTo(F - 1)
        bps == TestFileBps(TraceLineOf(result.val.lines))
    IN  /\ F = 0 => bps = <<>>
        /\ (F > 0 /\ call.abs_path # NoPath) =>
               bps = <<Bp(call.abs_path, F - k + 1)>>

\* line F - k + 1 of the output is original line F, alarms neutralized
OutputLineIsFailureLine ==
    LET F == call.fl
        k == TimeoutLinesUpTo(F - 1)
    IN  LineAt(result.val.lines, F - k + 1)
            = neutralize_alarms(<<call.lines[F]>>)[1]

----------------------------------------------------------------------------
(* The breakpoints of inject_setup_trace against the lines it returns *)

\* the input lines the breakpoints of inject_setup_trace stand for: the
\* first body statement of the target method, then the failure line
SetupTargetLines ==
    LET L1 == BodyLineno(call.lines, WalkFindDef(call.lines, call.meth))
    IN  <<L1>> \o (IF call.fl # 0 /\ call.fl # L1 THEN <<call.fl>> ELSE <<>>)

\* C27 as claimed: with the target method found and an abs_path, each
\* test-file breakpoint of inject_setup_trace designates in the output the
\* content that its line (first body statement of the target method,
\* failure line) has in the input, whether setUp is declared above or
\* below the target method, and when there is no setUp.  The failure
\* lines taken are those of the target method's body or below it.
C27_SetupBreakpointsDesignateTheirLines ==
    (/\ result.fn = "inject_setup_trace"
     /\ ~result.val.raised
     /\ call.meth # ""
     /\ DefsNamed(call.lines, call.meth) # {}
     /\ call.abs_path # NoPath
     /\ call.fl = 0 \/ call.fl >= SetupTargetLines[1]) =>
        LET bps == TestFileBps(TraceLineOf(result.val.lines))
        IN  /\ Len(bps) = Len(SetupTargetLines)
            /\ \A n \in 1..Len(bps) :
                  LineAt(result.val.lines, bps[n].line)
                      = LineAt(call.lines, SetupTargetLines[n])

----------------------------------------------------------------------------
(* The indentation of the post-mortem statements *)

\* C28 as claimed: the statements put in place of the first 'raise e' line
\* carry the indentation of that line, and a file that parsed before the
\* replacement parses after it (the enclosing block keeps a body); the
\* inputs include the runner block of test_generator.py.
C28_PostMortemKeepsIndentation ==
    (result.fn = "patch_postmortem" /\ RaisePositions(call.lines) # {}) =>
        LET i == SetMin(RaisePositions(call.lines))
        IN  /\ \A k \in 1..Len(PhysicalLines(result.val[i])) :
                  IsPrefix(call.lines[i].ws, PhysicalLines(result.val[i])[k].ws)
            /\ PhysicalLines(result.val[i])[1].ws = call.lines[i].ws
            /\ Parses(call.lines) => Parses(WriteLines(result.val))

----------------------------------------------------------------------------
(* The injected statement during a run of full_debug_prep *)

\* the preflight of the Direct rewrite has run and the rewrite is still the
\* file on disk
PreflightOfDirectDone == log = <<"write direct", "preflight">>

\* C29 as claimed: the preflight import of the Direct rewrite does not
\* reach the injected debugger-entry statement, wherever it was placed,
\* the top of the file included.
C29_PreflightNeverEntersDebugger ==
    PreflightOfDirectDone =>
        TracePositions(disk) \cap ExecModuleStarts(disk) = {}

----------------------------------------------------------------------------
(* The inserted line and the header of the located declaration *)

\* C30 as claimed: when the declaration is found, the inserted line comes
\* after the declaration's 'def' line and is indented deeper than it
\* (inside its body), also when the first body statement is on the header
\* line.
C30_InsertedInsideTheBody ==
    (Injected /\ Candidates # {}) =>
        LET d == SetMin(Shallowest)
        IN  \A p \in TracePositions(result.val.lines) :
                /\ p > d
                /\ result.val.lines[d] = InsertionInput[d]
                /\ Len(result.val.lines[p].ws) > Len(InsertionInput[d].ws)

====
